---- MODULE Spec2Model ----
(***************************************************************************)
(* Font atlas generator (tools/fonts/generate_atlas.py).                   *)
(*                                                                         *)
(* generate_atlas is a straight-line pipeline: load the font at the base   *)
(* size, measure_font, calculate_dimensions, reload the font at the scaled *)
(* size, create_atlas (a loop over the codepoints), convert_to_rgba, save  *)
(* atlas.png, write atlas.json.  The state is the pipeline's locals and    *)
(* the two output files; one action per pipeline step, the create_atlas    *)
(* loop taking one action per iteration.                                   *)
(*                                                                         *)
(* Python floats are IEEE-754 binary64.  `scale` and every product         *)
(* `x * scale` are modelled bit for bit (53-bit significand, round to      *)
(* nearest, ties to even), because int(11 * (15 / 11)) is 14 in the code,  *)
(* not 15.                                                                 *)
(***************************************************************************)
EXTENDS Integers, Sequences, FiniteSets, TLC

VARIABLES
    pc,            \* position in generate_atlas
    error,         \* the exception that ended the run, "none" while running
    codepoints,    \* argument: sequence of codepoints
    columns,       \* argument
    target_size,   \* argument
    style,         \* argument
    dir_created,   \* output_dir.mkdir has run
    font,          \* <<>> or <<the loaded font>>
    measured,      \* <<>> or <<[max_width, max_above, max_below]>>
    geometry,      \* <<>> or <<what calculate_dimensions returned>>
    i,             \* create_atlas: index of the next codepoint (0-based)
    atlas_gray,    \* <<>> or <<the "L" image>>
    metadata,      \* create_atlas: dict str(cp) -> <<row, col>>
    atlas_rgba,    \* <<>> or <<the "RGBA" image>>
    rows,          \* generate_atlas line 231, 0 before it
    atlas_png,     \* <<>> or <<the image saved>>
    atlas_json     \* <<>>, <<"partial">> or <<output_data>>

vars == <<pc, error, codepoints, columns, target_size, style, dir_created, font,
          measured, geometry, i, atlas_gray, metadata, atlas_rgba, rows,
          atlas_png, atlas_json>>

args == <<codepoints, columns, target_size, style>>

----------------------------------------------------------------------------
(* Bounds of the model.                                                    *)

MaxExtent == 6        \* calculate_dimensions alone: measured extents 0..MaxExtent
MaxTarget == 15       \* calculate_dimensions alone: target_size 1..MaxTarget
MaxGlyphs == 3        \* create_atlas alone: len(codepoints) 1..MaxGlyphs
MaxColumns == 3       \* columns 1..MaxColumns
MaxPixels == 4        \* convert_to_rgba alone: images of at most MaxPixels pixels
MaxRunGlyphs == 2     \* whole runs: len(codepoints) 1..MaxRunGlyphs
MaxRunTarget == 2     \* whole runs: target_size 1..MaxRunTarget

----------------------------------------------------------------------------
(* IEEE-754 binary64 arithmetic on the values the code computes.           *)
(* A positive float is [sig, exp]: sig is the 53-bit significand written   *)
(* as five digits, most significant first: a leading 1 and four digits of  *)
(* LimbBits bits each (1 + 4 * 13 = 53); the value is                      *)
(* (significand / 2^52) * 2^exp.  0.0 is [sig |-> <<>>].                   *)

LimbBits == 13
Limbs == 4

Max(a, b) == IF a >= b THEN a ELSE b

RECURSIVE Pow2(_)
Pow2(k) == IF k = 0 THEN 1 ELSE 2 * Pow2(k - 1)

Base == Pow2(LimbBits)

Zero == [sig |-> <<>>, exp |-> 0]

\* Number of bits of n >= 0.
RECURSIVE BitLen(_)
BitLen(n) == IF n = 0 THEN 0 ELSE 1 + BitLen(n \div 2)

\* n / d brought into [1, 2) by doubling one side: [n, d, e] with
\* n0 / d0 = (n / d) * 2^e  and  d <= n < 2d.
RECURSIVE Normalise(_, _, _)
Normalise(n, d, e) ==
    IF n < d THEN Normalise(2 * n, d, e - 1)
    ELSE IF n >= 2 * d THEN Normalise(n, 2 * d, e + 1)
    ELSE [n |-> n, d |-> d, e |-> e]

\* The next k digits of r / d (r < d), by long division, and the remainder
\* they leave.
RECURSIVE QuotDigits(_, _, _)
QuotDigits(r, d, k) ==
    IF k = 0 THEN [digits |-> <<>>, rem |-> r]
    ELSE LET rest == QuotDigits((r * Base) % d, d, k - 1)
         IN [digits |-> <<(r * Base) \div d>> \o rest.digits, rem |-> rest.rem]

\* digits + 1 in the last place; carry = 1 when it runs off the front.
RECURSIVE Increment(_, _)
Increment(digits, k) ==
    IF k = 0 THEN [digits |-> digits, carry |-> 1]
    ELSE IF k = 1 THEN [digits |-> [digits EXCEPT ![1] = 0], carry |-> 1]
    ELSE IF digits[k] + 1 < Base
         THEN [digits |-> [digits EXCEPT ![k] = digits[k] + 1], carry |-> 0]
    ELSE Increment([digits EXCEPT ![k] = 0], k - 1)

\* Round to nearest, ties to even: kept is the significand, up says whether
\* the dropped tail is above one half, or exactly one half with kept odd.
Round(kept, e, up) ==
    IF ~up THEN [sig |-> kept, exp |-> e]
    ELSE LET inc == Increment(kept, Len(kept))
         IN IF inc.carry = 0 THEN [sig |-> inc.digits, exp |-> e]
            ELSE [sig |-> [inc.digits EXCEPT ![1] = 1], exp |-> e + 1]

\* a / b for integers a >= 1, b >= 1 (true division, correctly rounded).
FloatDiv(a, b) ==
    LET nz == Normalise(a, b, 0)
        q == QuotDigits(nz.n - nz.d, nz.d, Limbs)
        kept == <<1>> \o q.digits
        up == \/ 2 * q.rem > nz.d
              \/ 2 * q.rem = nz.d /\ kept[Len(kept)] % 2 = 1
    IN Round(kept, nz.e, up)

\* Digits k.. of the exact product v * sig, and the carry out of digit k.
RECURSIVE MulLow(_, _, _)
MulLow(sig, v, k) ==
    IF k > Len(sig) THEN [digits |-> <<>>, carry |-> 0]
    ELSE LET low == MulLow(sig, v, k + 1)
             t == sig[k] * v + low.carry
         IN IF k = 1 THEN [digits |-> <<t>> \o low.digits, carry |-> 0]
            ELSE [digits |-> <<t % Base>> \o low.digits, carry |-> t \div Base]

\* digits shifted right by s bits, from digit k on, `into` being what the
\* digit before k shifts in; rem is the s bits shifted out at the end.
RECURSIVE ShiftRight(_, _, _, _)
ShiftRight(digits, s, k, into) ==
    IF k > Len(digits) THEN [digits |-> <<>>, rem |-> into]
    ELSE LET cur == IF k = 1 THEN digits[1] ELSE into * Base + digits[k]
             rest == ShiftRight(digits, s, k + 1, cur % Pow2(s))
         IN [digits |-> <<cur \div Pow2(s)>> \o rest.digits, rem |-> rest.rem]

\* v * x for an integer v >= 0 and a float x >= 0 (v is converted exactly,
\* the product is correctly rounded).  The exact product has a leading
\* digit of v or more, so it is shifted back to a leading 1.
FloatMulInt(v, x) ==
    IF v = 0 \/ x.sig = <<>> THEN Zero
    ELSE LET full == MulLow(x.sig, v, 1).digits
             extra == BitLen(full[1]) - 1
             sh == ShiftRight(full, extra, 1, 0)
             up == /\ extra > 0
                   /\ \/ 2 * sh.rem > Pow2(extra)
                      \/ 2 * sh.rem = Pow2(extra) /\ sh.digits[Len(full)] % 2 = 1
         IN Round(sh.digits, x.exp + extra, up)

\* The integer the first k digits of sig spell.
RECURSIVE Leading(_, _)
Leading(sig, k) == IF k = 0 THEN 0 ELSE Leading(sig, k - 1) * Base + sig[k]

\* int(x) for a float x >= 0: truncation.  The significand is an integer
\* scaled by 2^(exp - 52): drop whole digits, then the remaining bits.
FloatToInt(x) ==
    IF x.sig = <<>> \/ x.exp < 0 THEN 0
    ELSE LET shift == LimbBits * Limbs - x.exp
             whole == shift \div LimbBits
         IN Leading(x.sig, Len(x.sig) - whole) \div Pow2(shift % LimbBits)

\* x has no fractional part.
FloatIsInteger(x) ==
    \/ x.sig = <<>>
    \/ /\ x.exp >= 0
       /\ LET shift == LimbBits * Limbs - x.exp
              whole == shift \div LimbBits
              keep == Len(x.sig) - whole
          IN /\ x.sig[keep] % Pow2(shift % LimbBits) = 0
             /\ \A k \in (keep + 1)..Len(x.sig) : x.sig[k] = 0

\* x <= n, for a float x >= 0 and an integer n.
FloatLeqInt(x, n) ==
    \/ FloatToInt(x) < n
    \/ FloatToInt(x) = n /\ FloatIsInteger(x)

FloatPositive(x) == x.sig # <<>>

----------------------------------------------------------------------------
(* calculate_dimensions                                                    *)

base_font_size == 16

\* min for max in the divisor.
ScaleDivisorMin(max_width, natural_height) ==
    IF max_width <= natural_height THEN max_width ELSE natural_height

\* The divisor of line 82.
ScaleDivisor(max_width, natural_height) == Max(max_width, natural_height)

\* Lines 78-89.  The result is <<>> when line 82 raises ZeroDivisionError
\* and <<the returned tuple>> otherwise.
calculate_dimensions(max_width, max_above, max_below, target, base) ==
    LET natural_height == max_above + max_below
        natural_baseline == max_above
        divisor == ScaleDivisor(max_width, natural_height)
    IN IF divisor = 0 THEN <<>>
       ELSE LET scale == FloatDiv(target, divisor)
            IN << [font_size |-> FloatToInt(FloatMulInt(base, scale)),
                   glyph_width |-> FloatToInt(FloatMulInt(max_width, scale)),
                   glyph_height |-> FloatToInt(FloatMulInt(natural_height, scale)),
                   baseline_offset |-> FloatToInt(FloatMulInt(natural_baseline, scale)),
                   scale |-> scale] >>

----------------------------------------------------------------------------
(* Inputs and environment.                                                 *)

\* Space, 'A', 'g' and U+0401 (in SPECIAL_CYRILLIC).
CodepointPool == {32, 65, 103, 1025}

Styles == {"solid", "smooth", "bold"}

Coverage == {0, 1, 128, 255}

\* What the font file holds is the environment's: a loaded font answers
\* textbbox((0, 0), chr(cp)) with bbox[cp] = <<left, top, right, bottom>> and
\* deposits ink of coverage `ink`.
FaceWide ==
    [bbox |-> (32 :> <<0, 0, 0, 0>>) @@ (65 :> <<0, 0, 2, 2>>)
              @@ (103 :> <<0, 1, 2, 3>>) @@ (1025 :> <<1, -1, 3, 2>>),
     ink |-> 255]

FaceThin ==
    [bbox |-> (32 :> <<0, 0, 0, 0>>) @@ (65 :> <<0, 0, 1, 3>>)
              @@ (103 :> <<0, 1, 1, 4>>) @@ (1025 :> <<0, -1, 1, 3>>),
     ink |-> 128]

FaceBlank ==
    [bbox |-> [cp \in CodepointPool |-> <<0, 0, 0, 0>>], ink |-> 255]

Faces == {FaceWide, FaceThin, FaceBlank}

\* ImageFont.truetype(path, size)
LoadedFonts(size) == {[size |-> size, bbox |-> f.bbox, ink |-> f.ink] : f \in Faces}

SeqsUpTo(S, n) == UNION {[1..k -> S] : k \in 1..n}

Range(f) == {f[x] : x \in DOMAIN f}

----------------------------------------------------------------------------
(* measure_font                                                            *)

\* Lines 48-64 over the first n codepoints.
RECURSIVE measure_prefix(_, _, _)
measure_prefix(f, cps, n) ==
    IF n = 0 THEN [max_width |-> 0, max_above |-> 0, max_below |-> 0]
    ELSE LET prev == measure_prefix(f, cps, n - 1)
             bbox == f.bbox[cps[n]]
             width == bbox[3] - bbox[1]
             above == -bbox[2]
             below == bbox[4]
         IN [max_width |-> Max(prev.max_width, width),
             max_above |-> Max(prev.max_above, above),
             max_below |-> Max(prev.max_below, below)]

measure_font(f, cps) == measure_prefix(f, cps, Len(cps))

----------------------------------------------------------------------------
(* create_atlas                                                            *)

\* Image.new(mode, (width, height), 0): pixel (x, y) is px[<<x, y>>].
NewImage(width, height, fill) ==
    [width |-> width, height |-> height,
     px |-> [p \in (0..(width - 1)) \X (0..(height - 1)) |-> fill]]

\* A row too many when the last row is full.
RowsFloorPlusOne(glyph_count, cols) == glyph_count \div cols + 1

\* Line 101.
Rows(glyph_count, cols) == (glyph_count + cols - 1) \div cols

\* The row of a 1-based index.
CellRowOneBased(k, cols) == (k + 1) \div cols

\* Lines 112-113, for the 0-based index k.
CellRow(k, cols) == k \div cols
CellCol(k, cols) == k % cols

\* str(cp) for cp >= 0: the decimal digits, most significant first.
Digit(d) == <<"0", "1", "2", "3", "4", "5", "6", "7", "8", "9">>[d + 1]

RECURSIVE str(_)
str(n) == IF n < 10 THEN <<Digit(n)>> ELSE Append(str(n \div 10), Digit(n % 10))

\* metadata.setdefault(key, value): the first entry under a key stays.
DictSetDefault(d, key, value) ==
    [k \in DOMAIN d \cup {key} |-> IF k \in DOMAIN d THEN d[k] ELSE value]

\* metadata[key] = value on a dict.
DictSet(d, key, value) ==
    [k \in DOMAIN d \cup {key} |-> IF k = key THEN value ELSE d[k]]

\* draw.text((x, y), char, font, fill=255): the glyph's ink box, which
\* textbbox gives relative to the origin, is inked where it meets the image.
DrawText(img, x, y, f, cp) ==
    LET bbox == f.bbox[cp]
    IN [img EXCEPT !.px =
          [p \in DOMAIN img.px |->
              IF /\ x + bbox[1] <= p[1] /\ p[1] < x + bbox[3]
                 /\ y + bbox[2] <= p[2] /\ p[2] < y + bbox[4]
              THEN Max(img.px[p], f.ink)
              ELSE img.px[p]]]

----------------------------------------------------------------------------
(* convert_to_rgba                                                         *)

Transparent == <<0, 0, 0, 0>>

\* A threshold at half coverage in both styles.
ConvertPixelHalf(c, st) ==
    IF c > 127 THEN <<255, 255, 255, IF st = "solid" THEN 255 ELSE c>>
    ELSE Transparent

\* Lines 149-161 for one pixel of coverage c: the image starts transparent and
\* a pixel is written only where the coverage is positive.
ConvertPixel(c, st) ==
    IF st = "solid"
    THEN IF c > 0 THEN <<255, 255, 255, 255>> ELSE Transparent
    ELSE IF c > 0 THEN <<255, 255, 255, c>> ELSE Transparent

convert_to_rgba(img, st) ==
    [width |-> img.width, height |-> img.height,
     px |-> [p \in DOMAIN img.px |-> ConvertPixel(img.px[p], st)]]

----------------------------------------------------------------------------
(* generate_atlas, step by step.                                           *)

Fail(exc) == pc' = "failed" /\ error' = exc

\* Lines 188-196.
MakeOutputDir ==
    /\ pc = "mkdir"
    /\ dir_created' = TRUE
    /\ pc' = "load"
    /\ UNCHANGED <<error, args, font, measured, geometry, i, atlas_gray, metadata,
                   atlas_rgba, rows, atlas_png, atlas_json>>

\* Line 200.
LoadFont ==
    /\ pc = "load"
    /\ \E f \in LoadedFonts(base_font_size) : font' = <<f>>
    /\ pc' = "measure"
    /\ UNCHANGED <<error, args, dir_created, measured, geometry, i, atlas_gray,
                   metadata, atlas_rgba, rows, atlas_png, atlas_json>>

\* Line 200, the font file unreadable or malformed.
LoadFontFails ==
    /\ pc = "load"
    /\ Fail("OSError")
    /\ UNCHANGED <<args, dir_created, font, measured, geometry, i, atlas_gray,
                   metadata, atlas_rgba, rows, atlas_png, atlas_json>>

\* Line 201.
MeasureFont ==
    /\ pc = "measure"
    /\ measured' = <<measure_font(font[1], codepoints)>>
    /\ pc' = "dims"
    /\ UNCHANGED <<error, args, dir_created, font, geometry, i, atlas_gray,
                   metadata, atlas_rgba, rows, atlas_png, atlas_json>>

\* Lines 209-211.
CalculateDimensions ==
    /\ pc = "dims"
    /\ LET m == measured[1]
           g == calculate_dimensions(m.max_width, m.max_above, m.max_below,
                                     target_size, base_font_size)
       IN IF g = <<>>
          THEN Fail("ZeroDivisionError") /\ UNCHANGED geometry
          ELSE geometry' = g /\ pc' = "reload" /\ UNCHANGED error
    /\ UNCHANGED <<args, dir_created, font, measured, i, atlas_gray, metadata,
                   atlas_rgba, rows, atlas_png, atlas_json>>

\* Line 220.
ReloadFont ==
    /\ pc = "reload"
    /\ \E f \in LoadedFonts(geometry[1].font_size) : font' = <<f>>
    /\ pc' = "create"
    /\ UNCHANGED <<error, args, dir_created, measured, geometry, i, atlas_gray,
                   metadata, atlas_rgba, rows, atlas_png, atlas_json>>

\* Line 220, the library refusing the file or the size.
ReloadFontFails ==
    /\ pc = "reload"
    /\ Fail("OSError")
    /\ UNCHANGED <<args, dir_created, font, measured, geometry, i, atlas_gray,
                   metadata, atlas_rgba, rows, atlas_png, atlas_json>>

\* Lines 100-109.
CreateAtlasBegin ==
    /\ pc = "create"
    /\ LET g == geometry[1]
           glyph_count == Len(codepoints)
           atlas_width == columns * g.glyph_width
           atlas_height == Rows(glyph_count, columns) * g.glyph_height
       IN atlas_gray' = <<NewImage(atlas_width, atlas_height, 0)>>
    /\ metadata' = <<>>
    /\ i' = 0
    /\ pc' = "draw"
    /\ UNCHANGED <<error, args, dir_created, font, measured, geometry, atlas_rgba,
                   rows, atlas_png, atlas_json>>

\* Lines 111-127, one iteration.
DrawGlyph ==
    /\ pc = "draw"
    /\ i < Len(codepoints)
    /\ LET g == geometry[1]
           cp == codepoints[i + 1]
           row == CellRow(i, columns)
           col == CellCol(i, columns)
           cell_x == col * g.glyph_width
           cell_y == row * g.glyph_height
           bbox == font[1].bbox[cp]
           offset_x == -bbox[1]
           offset_y == cell_y + g.baseline_offset
       IN /\ atlas_gray' = <<DrawText(atlas_gray[1], cell_x + offset_x, offset_y,
                                      font[1], cp)>>
          /\ metadata' = DictSet(metadata, str(cp), <<row, col>>)
    /\ i' = i + 1
    /\ UNCHANGED <<pc, error, args, dir_created, font, measured, geometry,
                   atlas_rgba, rows, atlas_png, atlas_json>>

\* Line 129 and lines 229-233.
ConvertToRgba ==
    /\ pc = "draw"
    /\ i = Len(codepoints)
    /\ atlas_rgba' = <<convert_to_rgba(atlas_gray[1], style)>>
    /\ rows' = Rows(Len(codepoints), columns)
    /\ pc' = "save"
    /\ UNCHANGED <<error, args, dir_created, font, measured, geometry, i,
                   atlas_gray, metadata, atlas_png, atlas_json>>

\* Line 239.
SaveImage ==
    /\ pc = "save"
    /\ atlas_png' = atlas_rgba
    /\ pc' = "write"
    /\ UNCHANGED <<error, args, dir_created, font, measured, geometry, i,
                   atlas_gray, metadata, atlas_rgba, rows, atlas_json>>

\* Line 239, atlas.png not writable.
SaveImageFails ==
    /\ pc = "save"
    /\ Fail("OSError")
    /\ UNCHANGED <<args, dir_created, font, measured, geometry, i, atlas_gray,
                   metadata, atlas_rgba, rows, atlas_png, atlas_json>>

\* Lines 241-253.
OutputData ==
    LET g == geometry[1]
    IN [glyphs |-> metadata,
        metrics |-> [glyph_width |-> g.glyph_width,
                     glyph_height |-> g.glyph_height,
                     baseline_offset |-> g.baseline_offset,
                     columns |-> columns,
                     target_size |-> target_size,
                     font_size |-> g.font_size,
                     scale_factor |-> g.scale,
                     style |-> style]]

\* Lines 255-263.
WriteMetadata ==
    /\ pc = "write"
    /\ atlas_json' = <<[complete |-> TRUE, data |-> <<OutputData>>]>>
    /\ pc' = "done"
    /\ UNCHANGED <<error, args, dir_created, font, measured, geometry, i,
                   atlas_gray, metadata, atlas_rgba, rows, atlas_png>>

\* Lines 255-256: open() fails and leaves no file, or the write fails after
\* open() has created it.
WriteMetadataFails ==
    /\ pc = "write"
    /\ atlas_json' \in {<<>>, <<[complete |-> FALSE, data |-> <<>>]>>}
    /\ Fail("OSError")
    /\ UNCHANGED <<args, dir_created, font, measured, geometry, i, atlas_gray,
                   metadata, atlas_rgba, rows, atlas_png>>

----------------------------------------------------------------------------
(* Specifications.                                                         *)

NoGeometry == <<>>

\* A whole run of generate_atlas.
Init ==
    /\ pc = "mkdir"
    /\ error = "none"
    /\ codepoints \in SeqsUpTo(CodepointPool, MaxRunGlyphs)
    /\ columns \in 1..MaxColumns
    /\ target_size \in 1..MaxRunTarget
    /\ style \in Styles
    /\ dir_created = FALSE
    /\ font = <<>>
    /\ measured = <<>>
    /\ geometry = NoGeometry
    /\ i = 0
    /\ atlas_gray = <<>>
    /\ metadata = <<>>
    /\ atlas_rgba = <<>>
    /\ rows = 0
    /\ atlas_png = <<>>
    /\ atlas_json = <<>>

Next ==
    \/ MakeOutputDir
    \/ LoadFont
    \/ LoadFontFails
    \/ MeasureFont
    \/ CalculateDimensions
    \/ ReloadFont
    \/ ReloadFontFails
    \/ CreateAtlasBegin
    \/ DrawGlyph
    \/ ConvertToRgba
    \/ SaveImage
    \/ SaveImageFails
    \/ WriteMetadata
    \/ WriteMetadataFails

Spec == Init /\ [][Next]_vars

\* calculate_dimensions on every measurement and target size in the bounds.
InitDims ==
    /\ pc = "dims"
    /\ error = "none"
    /\ codepoints = <<65>>
    /\ columns = 1
    /\ target_size \in 1..MaxTarget
    /\ style = "solid"
    /\ dir_created = TRUE
    /\ font = <<[size |-> base_font_size, bbox |-> FaceWide.bbox, ink |-> FaceWide.ink]>>
    /\ measured \in {<<[max_width |-> w, max_above |-> a, max_below |-> b]>> :
                        w \in 0..MaxExtent, a \in 0..MaxExtent, b \in 0..MaxExtent}
    /\ geometry = NoGeometry
    /\ i = 0
    /\ atlas_gray = <<>>
    /\ metadata = <<>>
    /\ atlas_rgba = <<>>
    /\ rows = 0
    /\ atlas_png = <<>>
    /\ atlas_json = <<>>

SpecDims == InitDims /\ [][CalculateDimensions]_vars

\* create_atlas (and the conversion that follows it) on every codepoint
\* sequence and column count in the bounds, entered as generate_atlas enters
\* it: the geometry is the one calculate_dimensions returns for the measured
\* font, the font is that font reloaded at the scaled size.
InitAtlas ==
    /\ pc = "create"
    /\ error = "none"
    /\ codepoints \in SeqsUpTo(CodepointPool, MaxGlyphs)
    /\ columns \in 1..MaxColumns
    /\ target_size \in 1..MaxRunTarget
    /\ style = "solid"
    /\ dir_created = TRUE
    /\ \E f \in Faces :
          /\ measured = <<measure_font(f, codepoints)>>
          /\ geometry = calculate_dimensions(measured[1].max_width,
                                             measured[1].max_above,
                                             measured[1].max_below,
                                             target_size, base_font_size)
          /\ geometry # NoGeometry
          /\ font = <<[size |-> geometry[1].font_size, bbox |-> f.bbox, ink |-> f.ink]>>
    /\ i = 0
    /\ atlas_gray = <<>>
    /\ metadata = <<>>
    /\ atlas_rgba = <<>>
    /\ rows = 0
    /\ atlas_png = <<>>
    /\ atlas_json = <<>>

NextAtlas ==
    \/ CreateAtlasBegin
    \/ DrawGlyph
    \/ ConvertToRgba

SpecAtlas == InitAtlas /\ [][NextAtlas]_vars

\* The images convert_to_rgba is run on: every size of at most MaxPixels
\* pixels, every coverage in each pixel.  The other locals are those of a
\* one-glyph, one-column run whose cell is the whole image.
GrayImages ==
    UNION {[width : {w}, height : {h},
            px : [(0..(w - 1)) \X (0..(h - 1)) -> Coverage]] :
              <<w, h>> \in {s \in (0..MaxPixels) \X (0..MaxPixels) :
                              s[1] * s[2] <= MaxPixels}}

InitRgba ==
    /\ pc = "draw"
    /\ error = "none"
    /\ codepoints = <<65>>
    /\ columns = 1
    /\ target_size = 1
    /\ style \in Styles
    /\ dir_created = TRUE
    /\ font = <<[size |-> base_font_size, bbox |-> FaceWide.bbox, ink |-> FaceWide.ink]>>
    /\ measured = <<measure_font(font[1], codepoints)>>
    /\ atlas_gray \in {<<img>> : img \in GrayImages}
    /\ geometry = <<[font_size |-> base_font_size,
                     glyph_width |-> atlas_gray[1].width,
                     glyph_height |-> atlas_gray[1].height,
                     baseline_offset |-> 0,
                     scale |-> FloatDiv(1, 1)]>>
    /\ i = 1
    /\ metadata = DictSet(<<>>, str(65), <<0, 0>>)
    /\ atlas_rgba = <<>>
    /\ rows = 0
    /\ atlas_png = <<>>
    /\ atlas_json = <<>>

SpecRgba == InitRgba /\ [][ConvertToRgba]_vars

----------------------------------------------------------------------------
(* Properties.                                                             *)

geo == geometry[1]
msr == measured[1]

Distinct(cps) == \A a, b \in 1..Len(cps) : a # b => cps[a] # cps[b]

\* The cell raster order gives the 1-based input position k.
CellOf(k) == <<(k - 1) \div columns, (k - 1) % columns>>

\* ceil(n / c): the least r with r * c >= n.
CeilDiv(n, c) == CHOOSE r \in 0..n : r * c >= n /\ \A q \in 0..(r - 1) : q * c < n

\* The number a decimal string spells.
DigitValue(ch) == CHOOSE d \in 0..9 : Digit(d) = ch

RECURSIVE DecimalValue(_)
DecimalValue(key) ==
    IF key = <<>> THEN 0
    ELSE 10 * DecimalValue(SubSeq(key, 1, Len(key) - 1)) + DigitValue(key[Len(key)])

LastIndex(cps, cp) == CHOOSE k \in 1..Len(cps) :
                          cps[k] = cp /\ \A j \in (k + 1)..Len(cps) : cps[j] # cp

KnownStyles == {"solid", "smooth"}

Ended == pc \in {"done", "failed"}

\* C1: in create_atlas, with distinct codepoints, the codepoint at input
\* position k (1-based here) is indexed at (row, col) = ((k-1) div C,
\* (k-1) mod C) as soon as its iteration has run, and no two positions get
\* the same cell.
C1_GridPacking ==
    (pc \in {"draw", "save"} /\ Distinct(codepoints)) =>
        /\ \A k \in 1..i :
              /\ str(codepoints[k]) \in DOMAIN metadata
              /\ metadata[str(codepoints[k])] = CellOf(k)
        /\ \A a, b \in 1..i :
              a # b => metadata[str(codepoints[a])] # metadata[str(codepoints[b])]

C1_Witness ==
    /\ pc = "save"
    /\ Distinct(codepoints)
    /\ Len(codepoints) = 3
    /\ columns = 2
    /\ metadata[str(codepoints[3])] = <<1, 0>>

\* C2: convert_to_rgba maps each pixel by its own coverage c: solid gives
\* opaque white for c > 0 and transparent for c = 0; smooth gives white with
\* alpha c for c > 0 and transparent for c = 0.  So solid alphas are 0 or 255,
\* smooth alpha is the coverage, and the colour channels are all 0 or all 255.
C2_StyleMapping ==
    (pc = "save" /\ style \in KnownStyles) =>
        /\ atlas_rgba[1].width = atlas_gray[1].width
        /\ atlas_rgba[1].height = atlas_gray[1].height
        /\ DOMAIN atlas_rgba[1].px = DOMAIN atlas_gray[1].px
        /\ \A p \in DOMAIN atlas_gray[1].px :
              LET c == atlas_gray[1].px[p]
                  out == atlas_rgba[1].px[p]
              IN /\ style = "solid" =>
                       /\ out = IF c > 0 THEN <<255, 255, 255, 255>> ELSE <<0, 0, 0, 0>>
                       /\ out[4] \in {0, 255}
                 /\ style = "smooth" =>
                       /\ out = IF c > 0 THEN <<255, 255, 255, c>> ELSE <<0, 0, 0, 0>>
                       /\ out[4] = c
                 /\ \/ out[1] = 0 /\ out[2] = 0 /\ out[3] = 0
                    \/ out[1] = 255 /\ out[2] = 255 /\ out[3] = 255

C2_Witness ==
    /\ pc = "save"
    /\ style = "smooth"
    /\ \E p, q \in DOMAIN atlas_gray[1].px :
          /\ atlas_gray[1].px[p] = 1
          /\ atlas_rgba[1].px[p] = <<255, 255, 255, 1>>
          /\ atlas_gray[1].px[q] = 0
          /\ atlas_rgba[1].px[q] = <<0, 0, 0, 0>>

\* C3: with a style tag that is neither "solid" nor "smooth" the conversion
\* fails with UnknownStyle and no RGBA image is produced: the run never gets
\* past the conversion.
C3_UnknownStyleFails ==
    style \notin KnownStyles =>
        /\ atlas_rgba = <<>>
        /\ pc \notin {"save", "write", "done"}
        /\ (pc = "failed" /\ atlas_gray # <<>> /\ i = Len(codepoints)) =>
              error = "UnknownStyle"

\* C4: when max_width and natural_height are both zero, calculate_dimensions
\* fails with EmptyMeasurement and returns no geometry.
C4_EmptyMeasurement ==
    (pc # "dims" /\ msr.max_width = 0 /\ msr.max_above + msr.max_below = 0) =>
        /\ pc = "failed"
        /\ error = "EmptyMeasurement"
        /\ geometry = NoGeometry

\* C5: a run is all-or-nothing: once it has ended, atlas.png and atlas.json
\* have both been written or neither has.
C5_AllOrNothing ==
    Ended => ((atlas_png # <<>>) <=> (atlas_json # <<>>))

\* C6: for every measurement that is not all zero and every target_size > 0,
\* calculate_dimensions returns scale > 0, glyph_width >= 1 and
\* glyph_height >= 1.
C6_CellAtLeastOne ==
    (pc # "dims" /\ Max(msr.max_width, msr.max_above + msr.max_below) > 0) =>
        /\ geometry # NoGeometry
        /\ FloatPositive(geo.scale)
        /\ geo.glyph_width >= 1
        /\ geo.glyph_height >= 1

\* C7: when create_atlas has run, the glyph index holds exactly one entry per
\* unique codepoint, keyed by the codepoint's decimal string, and the entry of
\* a repeated codepoint is the cell of its last occurrence.
C7_OneEntryPerCodepoint ==
    pc = "save" =>
        /\ {DecimalValue(key) : key \in DOMAIN metadata} = Range(codepoints)
        /\ Cardinality(DOMAIN metadata) = Cardinality(Range(codepoints))
        /\ \A key \in DOMAIN metadata :
              /\ Len(key) >= 1
              /\ Len(key) > 1 => key[1] # "0"
              /\ metadata[key] = CellOf(LastIndex(codepoints, DecimalValue(key)))

C7_Witness ==
    /\ pc = "save"
    /\ codepoints = <<65, 1025, 65>>
    /\ columns = 2
    /\ DOMAIN metadata = {<<"6", "5">>, <<"1", "0", "2", "5">>}
    /\ metadata[<<"6", "5">>] = <<1, 0>>

\* C8: the atlas create_atlas builds is C * glyph_width wide and
\* ceil(N / C) * glyph_height high, every assigned cell has row < ceil(N / C)
\* and col < C, and the row count generate_atlas computes is ceil(N / C).
C8_ImageDimensions ==
    pc \in {"draw", "save"} =>
        LET n == Len(codepoints)
        IN /\ atlas_gray[1].width = columns * geo.glyph_width
           /\ atlas_gray[1].height = CeilDiv(n, columns) * geo.glyph_height
           /\ \A key \in DOMAIN metadata :
                 /\ 0 <= metadata[key][1] /\ metadata[key][1] < CeilDiv(n, columns)
                 /\ 0 <= metadata[key][2] /\ metadata[key][2] < columns
           /\ pc = "save" =>
                 /\ rows = CeilDiv(n, columns)
                 /\ atlas_rgba[1].height = rows * geo.glyph_height

C8_Witness ==
    /\ pc = "save"
    /\ Len(codepoints) = 3
    /\ columns = 2
    /\ rows = 2
    /\ geo.glyph_width = 1
    /\ geo.glyph_height = 2
    /\ atlas_gray[1].width = 2
    /\ atlas_gray[1].height = 4
    /\ \E key \in DOMAIN metadata : metadata[key] = <<1, 0>>

\* C9: the geometry keeps the deepest descender inside the cell:
\* baseline_offset + max_below * scale <= glyph_height.
C9_DescenderInsideCell ==
    (pc # "dims" /\ geometry # NoGeometry) =>
        FloatLeqInt(FloatMulInt(msr.max_below, geo.scale),
                    geo.glyph_height - geo.baseline_offset)

\* C10: calculate_dimensions never returns a cell larger than the target:
\* glyph_width <= target_size, glyph_height <= target_size and
\* baseline_offset <= glyph_height.
C10_CellWithinTarget ==
    (pc # "dims" /\ geometry # NoGeometry) =>
        /\ geo.glyph_width <= target_size
        /\ geo.glyph_height <= target_size
        /\ geo.baseline_offset <= geo.glyph_height

C10_Witness ==
    /\ pc = "reload"
    /\ geo.glyph_width = target_size
    /\ 1 <= geo.baseline_offset
    /\ geo.baseline_offset < geo.glyph_height
    /\ geo.glyph_height < target_size

====
